---- MODULE Spec2Model ----
(***************************************************************************)
(* State-machine model of the 0D circulation time loop of ambit:           *)
(*   Flow0DProblem / Flow0DSolver        (modules/flow0d/flow0d.py)        *)
(*   solver_nonlinear_ode                (modules/solver/solver_nonlin.py) *)
(* The state vector has one degree of freedom and integer values; time is  *)
(* counted in integer ticks, so that t = N*dt, T_cycl and the cycle        *)
(* counter are exact.  Residuals and Newton increments are the results of  *)
(* the compartment model and of the linear solve; they are inputs of the   *)
(* solver and are drawn from small sets.                                   *)
(* The parameter record, the time curves and the time-stepping figures of  *)
(* the bleed demo (demos/flow0d/bleed.py) are operators over scaled        *)
(* integers; SpecCalc evaluates them on sampled arguments.                 *)
(***************************************************************************)
EXTENDS Integers, Sequences, FiniteSets, TLC

\* ---------------------------------------------------------------- bounds
MaxNumStep == 5      \* largest step index of a run (numstep)
MaxIter    == 3      \* largest configured maxiter
MaxNorm    == 1      \* largest absolute value of a residual / increment entry
MaxPressure == 2     \* largest absolute value of a pressure given to a valve
MaxPeriods  == 2     \* cardiac cycles over which the time curves are sampled
MaxMaterials == 2    \* largest number of materials MAT1..MATn of an input
MaxProblems == 2     \* largest number of problems handed to solver_nonlinear

\* resets after which solver_nonlinear.newton gives up
max_adapt == 10

\* maxiter of solver_nonlinear.newton under divergence_continue = 'PTC'
ptc_maxiter == 250

\* number of heart cycles of the demo run
number_of_cycles == 3000

\* ------------------------------------------------- configuration domains
KnownModelTypes ==
  {"2elwindkessel", "4elwindkesselLsZ", "4elwindkesselLpZ",
   "syspul", "syspulcap", "syspulcap2", "syspulcaprespir"}
WindkesselTypes == {"2elwindkessel", "4elwindkesselLsZ", "4elwindkesselLpZ"}
ModelTypeInputs == {"2elwindkessel", "syspul", "3elwindkessel"}

NoPerturb     == "None"
PerturbTypes  == {NoPerturb, "bleed"}
TriggerCycles == {-1, 2}
DtValues      == {1, 2}
TcyclValues   == {2, 3}
TolValues     == {1}
EpsValues     == {1}
Vectors       == (-MaxNorm)..MaxNorm
RestartSteps  == {0, 2}
NumStepValues == {MaxNumStep}
NumStepStops  == {0, 2, 3}      \* 0: the problem carries no pbs.numstep_stop
CheckpointStates == {0, 1}    \* s stored in a checkpoint file
ThetaValues   == {1, 2}       \* theta_ost in halves: 1 is theta = 0.5, 2 is theta = 1
WriteRestartEvery == {-1, 2}
WriteResultsEvery == {1}
\* (theta_ost, initial_backwardeuler) pairs of time_params; theta_ost = 1
\* without the initial backward Euler step takes the same steps as with it
TimeIntegration == (ThetaValues \X BOOLEAN) \ {<<2, FALSE>>}
InitialCondition == 0

VARIABLES
  pc,                  \* position in construction / solve_problem / newton
  modeltype,           \* model_params['modeltype'] given to the constructor
  allocated,           \* K, s, s_old, ... have been created
  T_cycl, dt, numstep, restart_step, numstep_stop,
  theta_ost, write_restart_every,
  initial_backwardeuler, \* time_params['initial_backwardeuler']
  parameters,          \* model_params['parameters'] handed to the 0D model
  write_results_every_0D,
  eps_periodic, perturb_type, perturb_after_cylce,
  maxiter, tolres, tolinc, PTC,
  s, s_old, sTc, sTc_old,
  s_mid,               \* midpoint value in halves (2 * s_mid of the code)
  last_restart,        \* step index of the newest restart checkpoint written
  last_output,         \* step index of the newest line of the result files
  checkpoint,          \* content of the newest restart checkpoint written
  result_line,         \* state values of the newest line of the result files
  simname,             \* pb.simname: the restart steps appended to the configured name
  N, t, t_off,
  theta,               \* theta of the current time step, in halves
  it, ni, r, ds, resnorm, incnorm, nsolve, evaluated,
  cycle, cycleerror, is_periodic,
  params, have_induced_pert, npert,
  exit,
  calc,                \* newest evaluation of a parameter / time-curve function
  nln                  \* state of a call of solver_nonlinear.newton

config == <<modeltype, allocated, T_cycl, dt, numstep, restart_step,
            numstep_stop, theta_ost, write_restart_every,
            initial_backwardeuler, write_results_every_0D, parameters,
            eps_periodic, perturb_type, perturb_after_cylce>>
solver == <<maxiter, tolres, tolinc, PTC>>
vecs   == <<s, s_old, s_mid, sTc, sTc_old>>
clock  == <<N, t, t_off, theta>>
files  == <<last_restart, last_output, checkpoint, result_line, simname>>
nwt    == <<it, ni, r, ds, resnorm, incnorm, nsolve>>
cyc    == <<cycle, cycleerror, is_periodic>>
pert   == <<params, have_induced_pert, npert>>

prog == <<pc, config, solver, vecs, clock, nwt, evaluated, cyc, pert,
          files, exit>>

vars == <<prog, calc, nln>>

\* ------------------------------------------------------ pure functions
\* PETSc Vec.norm() of a vector with one entry
Norm(x) == IF x < 0 THEN -x ELSE x

\* integer floor division for non-negative a and positive b
FloorDiv(a, b) == a \div b

\* sol_utils.check_converged(resnorms, incnorms, tolerances, ptype='flow0d')
check_converged(res, inc, tol_r, tol_i) == res < tol_r /\ inc < tol_i

\* T_cycl of the 0D model object: only the syspul* models carry a heart cycle
ModelTcycl(tag, T) == IF tag \in WindkesselTypes THEN 0 ELSE T

\* cycle counter stored in the checkpoint written at step rst of an earlier
\* run with the same dt and T_cycl (writerestart, '%i' of ti.cycle[0])
CheckpointCycle(rst, d, T) == IF T > 0 THEN FloorDiv(rst * d, T) + 1 ELSE 1

\* the decimal digits of a natural number, most significant first ('%i')
RECURSIVE format_i(_)
format_i(n) == IF n < 10 THEN <<n>> ELSE Append(format_i(n \div 10), n % 10)

\* the integer a sequence of decimal digits stands for (loadtxt, dtype=int)
RECURSIVE loadtxt_int(_)
loadtxt_int(digits) ==
  IF Len(digits) = 0 THEN 0
  ELSE 10 * loadtxt_int(SubSeq(digits, 1, Len(digits) - 1)) + digits[Len(digits)]

\* io_params['simname'] as configured: nothing appended yet
ConfiguredName == << >>

\* sname + '_r' + str(rst)
restart_name(sname, rst) == Append(sname, rst)

\* the checkpoint files of one step: the name and step index they are
\* written under and what they hold
CheckpointFile(sname, n, sv, sTc_o, cyc_digits, cerr) ==
  [file |-> <<sname, n>>, s |-> sv, sTc_old |-> sTc_o,
   cycle |-> cyc_digits, cycleerror |-> cerr]

\* no checkpoint on disk
NoCheckpoint == CheckpointFile(ConfiguredName, 0, 0, 0, format_i(1), 0)

\* ------------------------------------ the bleed demo: parameter record
\* Units of the record: times in ticks of 1/15000 s (T_cycl = 0.4 s is 6000
\* ticks), resistances in 1e-8, elastances in 1e-10, factors in hundredths.
\* param(bleed) of the demo, statement by statement
param(bleed) ==
  LET R_bleed_factor == IF bleed THEN 149 ELSE 100
      E_bleed_factor == IF bleed THEN 149 ELSE 100
      T              == 6000
      t_ed           == (2 * T) \div 10
      t_es           == (53 * T) \div 100
      hr_base_val    == 15000
      hr_ratio       == ((hr_base_val - T) * 100) \div hr_base_val
      E_hr_factor    == 100 + (hr_ratio * 85) \div 100
      \* first assignment of E_factor (in 1e-4), overwritten below
      E_factor_hr    == E_bleed_factor * E_hr_factor
      \* E_factor = 1.0 + hr_ratio * 0.85, assigned before the elastances
      E_factor       == 100 * (100 + (hr_ratio * 85) \div 100)
  IN [T_cycl       |-> T,
      t_ed         |-> t_ed,
      t_es         |-> t_es,
      R_ar_sys     |-> R_bleed_factor * 120,
      E_at_max_l   |-> E_factor * 29,
      E_at_min_l   |-> E_factor * 9,
      E_at_max_r   |-> E_factor * 18,
      E_at_min_r   |-> E_factor * 8,
      E_v_max_l    |-> E_factor * 300,
      E_v_min_l    |-> E_factor * 12,
      E_v_max_r    |-> E_factor * 200,
      E_v_min_r    |-> E_factor * 10,
      R_vin_l_min  |-> 100,
      R_vin_l_max  |-> 1000000000,
      R_vout_l_min |-> 100,
      R_vout_l_max |-> 1000000000,
      R_vin_r_min  |-> 100,
      R_vin_r_max  |-> 1000000000,
      R_vout_r_min |-> 100,
      R_vout_r_max |-> 1000000000]

\* dt = maxtime / numstep of TIME_PARAMS, in ticks
time_step(maxtime, ns) == maxtime \div ns

\* TIME_PARAMS of the demo: maxtime in ticks, theta_ost in halves,
\* eps_periodic in 1e-8
TIME_PARAMS ==
  [maxtime               |-> number_of_cycles * 15000,
   numstep               |-> number_of_cycles * 100,
   theta_ost             |-> 1,
   initial_backwardeuler |-> TRUE,
   eps_periodic          |-> 2]

\* ------------------------------------ the bleed demo: activation curves
\* twelfths of a period at which the cosine is rational
Twelfths == {0, 2, 3, 4, 6, 8, 9, 10, 12}

\* 2 * cos(2 pi k / 12)
Cos2(k) ==
  CASE k \in {0, 12} -> 2
    [] k \in {2, 10} -> 1
    [] k \in {3, 9}  -> 0
    [] k \in {4, 8}  -> -1
    [] k = 6         -> -2

\* the cosine of 2 pi x / d is rational
RationalPhase(x, d) == (12 * x) % d = 0 /\ (12 * x) \div d \in Twelfths

\* variant: the factor 0.5 is missing
raised_cosine_unscaled(x, d) == 4 - 2 * Cos2((12 * x) \div d)

\* 0.5 * (1 - cos(2 pi x / d)), in quarters
raised_cosine(x, d) == 2 - Cos2((12 * x) \div d)

\* active window [t0, t0 + act_dur] of the two curves
tc1_window == [t0 |-> 0, act_dur |-> 2 * param(TRUE).t_ed]
tc2_window ==
  [t0      |-> param(TRUE).t_ed,
   act_dur |-> (18 * (param(TRUE).t_es - param(TRUE).t_ed)) \div 10]

\* the body shared by tc1 and tc2: activation in quarters at time tt
activation(w, tt) ==
  LET tmod == tt % param(TRUE).T_cycl
  IN IF tmod >= w.t0 /\ tmod <= w.t0 + w.act_dur
     THEN raised_cosine(tmod - w.t0, w.act_dur)
     ELSE 0

tc1(tt) == activation(tc1_window, tt)
tc2(tt) == activation(tc2_window, tt)

\* times at which a curve with window w can be evaluated exactly
Evaluable(w, tt) ==
  LET tmod == tt % param(TRUE).T_cycl
  IN (tmod >= w.t0 /\ tmod <= w.t0 + w.act_dur)
       => RationalPhase(tmod - w.t0, w.act_dur)

\* phases sampled in each period: the rational points of both windows and
\* the ticks next to the window ends
PhasePoints ==
  LET T   == param(TRUE).T_cycl
      P(w) == {w.t0 + (k * w.act_dur) \div 12 : k \in Twelfths}
                \cup {(w.t0 + T - 1) % T, w.t0 + w.act_dur + 1}
  IN P(tc1_window) \cup P(tc2_window) \cup {T - 1}

SampleTimes ==
  {q * param(TRUE).T_cycl + x : q \in 0..(MaxPeriods - 1), x \in PhasePoints}

\* ------------------------------- 0D model functions fed by the record
Valves   == {"vin_l", "vout_l", "vin_r", "vout_r"}
Chambers == {"at_l", "at_r", "v_l", "v_r"}
Pressures == (-MaxPressure)..MaxPressure

\* variant: the two bounds of a valve are taken in the wrong order
valve_bounds_swapped(prm, v) ==
  CASE v = "vin_l"  -> <<prm.R_vin_l_max, prm.R_vin_l_min>>
    [] v = "vout_l" -> <<prm.R_vout_l_max, prm.R_vout_l_min>>
    [] v = "vin_r"  -> <<prm.R_vin_r_max, prm.R_vin_r_min>>
    [] v = "vout_r" -> <<prm.R_vout_r_max, prm.R_vout_r_min>>

\* <<open, closed>> resistance of valve v in the parameter record
valve_bounds(prm, v) ==
  CASE v = "vin_l"  -> <<prm.R_vin_l_min, prm.R_vin_l_max>>
    [] v = "vout_l" -> <<prm.R_vout_l_min, prm.R_vout_l_max>>
    [] v = "vin_r"  -> <<prm.R_vin_r_min, prm.R_vin_r_max>>
    [] v = "vout_r" -> <<prm.R_vout_r_min, prm.R_vout_r_max>>

\* the piecewise valve law 'pwlin_pres'
valve_resistance(p_up, p_down, R_min, R_max) ==
  IF p_up >= p_down THEN R_min ELSE R_max

\* <<E_min, E_max>> of chamber ch in the parameter record
elastance_bounds(prm, ch) ==
  CASE ch = "at_l" -> <<prm.E_at_min_l, prm.E_at_max_l>>
    [] ch = "at_r" -> <<prm.E_at_min_r, prm.E_at_max_r>>
    [] ch = "v_l"  -> <<prm.E_v_min_l, prm.E_v_max_l>>
    [] ch = "v_r"  -> <<prm.E_v_min_r, prm.E_v_max_r>>

\* activation curve of a chamber: curve 1 for the atria, 2 for the ventricles
activation_curve(ch) == IF ch \in {"at_l", "at_r"} THEN 1 ELSE 2

\* time-varying elastance (E_max - E_min) * act + E_min, times 4 because the
\* activation is in quarters
chamber_elastance(act4, E_min, E_max) == (E_max - E_min) * act4 + 4 * E_min

\* ------------------------------------------------------------- Init
\* values of an entry of a solution vector of solver_nonlinear
XValues == {0, 1}

\* no call of solver_nonlinear.newton has been made
NewtonIdle ==
  [at |-> "idle", nprob |-> 1, sub_solve |-> {}, x |-> <<0>>, x_start |-> <<0>>,
   s |-> 0, s_start |-> 0, it |-> 0, maxiter |-> 0, PTC |-> FALSE,
   counter_adapt |-> 0, caught |-> 0]

Init ==
  /\ pc = "construct"
  /\ modeltype = "" /\ allocated = FALSE
  /\ T_cycl = 0 /\ dt = 1 /\ numstep = 0 /\ restart_step = 0 /\ numstep_stop = 0
  /\ theta_ost = 2 /\ write_restart_every = -1
  /\ initial_backwardeuler = FALSE /\ write_results_every_0D = 1
  /\ parameters = param(TRUE)
  /\ eps_periodic = 0 /\ perturb_type = NoPerturb /\ perturb_after_cylce = -1
  /\ maxiter = 0 /\ tolres = 0 /\ tolinc = 0 /\ PTC = FALSE
  /\ s = 0 /\ s_old = 0 /\ s_mid = 0 /\ sTc = 0 /\ sTc_old = 0
  /\ N = 0 /\ t = 0 /\ t_off = 0 /\ theta = 2
  /\ it = 0 /\ ni = 0 /\ r = 0 /\ ds = 0 /\ resnorm = 0 /\ incnorm = 0
  /\ nsolve = 0 /\ evaluated = FALSE
  /\ cycle = 1 /\ cycleerror = 0 /\ is_periodic = FALSE
  /\ params = "baseline" /\ have_induced_pert = FALSE /\ npert = 0
  /\ last_restart = 0 /\ last_output = 0
  /\ checkpoint = NoCheckpoint
  /\ simname = ConfiguredName
  /\ result_line = 0
  /\ exit = "none"
  /\ calc = [fn |-> "none", arg |-> 0, out |-> 0]
  /\ nln = NewtonIdle

\* ------------------------------------------- Flow0DProblem.__init__
\* a zero or negative time step, or a non-positive bound in the record
Degenerate(d, prm) ==
  \/ d <= 0
  \/ \E v \in Valves : valve_bounds(prm, v)[1] <= 0 \/ valve_bounds(prm, v)[2] <= 0
  \/ \E ch \in Chambers :
       elastance_bounds(prm, ch)[1] <= 0 \/ elastance_bounds(prm, ch)[2] <= 0

DegenerateInputs ==
  ({0, -1} \X {param(TRUE)})
    \cup ({1} \X {[param(TRUE) EXCEPT !.R_vin_l_min = 0],
                  [param(TRUE) EXCEPT !.E_v_min_l = -1]})

\* variant: the final else accepts the tag instead of raising
dispatch_modeltype_noraise(tag) == tag \notin {""}

\* the if/elif chain over model_params['modeltype']: TRUE when a model class
\* is instantiated, FALSE when the final else raises NameError
dispatch_modeltype(tag) == tag \in KnownModelTypes

\* variant: the trigger cycle is stored as given
trigger_cycle_as_given(ptype, pac) == pac

\* perturb_after_cylce: "definitely set to -1 if we don't have a perturb type"
trigger_cycle(ptype, pac) == IF ptype = NoPerturb THEN -1 ELSE pac

\* the constructor, given the set of (time step, parameter record) inputs
Flow0DProblem_construct(Inputs) ==
  /\ pc = "construct"
  /\ \E tag \in ModelTypeInputs, ptype \in PerturbTypes, pac \in TriggerCycles,
        in \in Inputs, T \in TcyclValues, eps \in EpsValues,
        rst \in RestartSteps, ns \in NumStepValues, nstop \in NumStepStops,
        ti \in TimeIntegration, wre \in WriteRestartEvery,
        wrs \in WriteResultsEvery :
       /\ modeltype' = tag
       /\ IF dispatch_modeltype(tag)
          THEN /\ eps_periodic' = eps
               /\ perturb_type' = ptype
               /\ perturb_after_cylce' = trigger_cycle(ptype, pac)
               /\ T_cycl' = ModelTcycl(tag, T)
               /\ dt' = in[1] /\ numstep' = ns /\ restart_step' = rst
               /\ parameters' = in[2]
               /\ numstep_stop' = nstop
               /\ theta_ost' = ti[1] /\ initial_backwardeuler' = ti[2]
               /\ write_restart_every' = wre
               /\ write_results_every_0D' = wrs
               /\ allocated' = TRUE
               /\ s' = InitialCondition /\ s_old' = InitialCondition
               /\ sTc_old' = InitialCondition
               /\ pc' = "solver_init"
          ELSE /\ pc' = "config_error"
               /\ UNCHANGED <<eps_periodic, perturb_type, perturb_after_cylce,
                              T_cycl, dt, numstep, restart_step, numstep_stop,
                              theta_ost, write_restart_every,
                              initial_backwardeuler, write_results_every_0D,
                              parameters, allocated, s, s_old, sTc_old>>
  /\ UNCHANGED <<solver, s_mid, sTc, clock, nwt, evaluated, cyc, pert,
                 files, exit>>
  /\ UNCHANGED <<calc, nln>>

\* construction from a well-formed time step and parameter record
Flow0DProblem_init == Flow0DProblem_construct(DtValues \X {param(TRUE)})

\* construction from a zero or negative time step, or from a parameter
\* record with a non-positive resistance or elastance bound
Flow0DProblem_init_degenerate == Flow0DProblem_construct(DegenerateInputs)

\* ------------------------------------ solver_nonlinear_ode.__init__
solver_init ==
  /\ pc = "solver_init"
  /\ \E mi \in 1..MaxIter, tr \in TolValues, ti \in TolValues :
       /\ maxiter' = mi /\ tolres' = tr /\ tolinc' = ti
  /\ PTC' = FALSE
  /\ pc' = "start"
  /\ UNCHANGED <<config, vecs, clock, nwt, evaluated, cyc, pert, files, exit>>
  /\ UNCHANGED <<calc, nln>>

\* --------------------------------------- the perturbation injector
induce_perturbation(ptype, ct, after) ==
  IF after > 0 /\ ct > after /\ ~have_induced_pert
  THEN /\ params' = ptype
       /\ have_induced_pert' = TRUE
       /\ npert' = npert + 1
  ELSE UNCHANGED pert

\* ------------------ Flow0DSolver.solve_problem, up to the time loop
\* variant: the heart cycle info of the checkpoint is not read back
readrestart_nocycle(file) ==
  /\ s' = file.s /\ s_old' = file.s
  /\ sTc_old' = file.sTc_old
  /\ UNCHANGED <<cycle, cycleerror>>

\* variant: the file of s is read into s only, s_old keeps its initial value
readrestart_s_only(file) ==
  /\ s' = file.s /\ s_old' = InitialCondition
  /\ sTc_old' = file.sTc_old
  /\ IF T_cycl > 0
     THEN /\ cycle' = loadtxt_int(file.cycle)
          /\ cycleerror' = file.cycleerror
     ELSE UNCHANGED <<cycle, cycleerror>>

\* Flow0DProblem.readrestart: state vectors and heart cycle info
readrestart(file) ==
  /\ s' = file.s /\ s_old' = file.s
  /\ sTc_old' = file.sTc_old
  /\ IF T_cycl > 0
     THEN /\ cycle' = loadtxt_int(file.cycle)
          /\ cycleerror' = file.cycleerror
     ELSE UNCHANGED <<cycle, cycleerror>>

\* the checkpoints of step restart_step that an earlier run under the
\* configured name, with the same dt and T_cycl, can have left behind
EarlierCheckpoints ==
  {CheckpointFile(ConfiguredName, restart_step, cs, InitialCondition,
                  format_i(CheckpointCycle(restart_step, dt, T_cycl)), 0) :
     cs \in CheckpointStates}

\* variant: the name is left as configured after the restart read
renamed_after_restart_kept(sname, rst) == sname

\* self.pb.simname += '_r'+str(self.pb.restart_step)
renamed_after_restart(sname, rst) == restart_name(sname, rst)

solve_problem_start ==
  /\ pc = "start"
  /\ IF restart_step > 0
     THEN /\ \E file \in EarlierCheckpoints : readrestart(file)
          /\ simname' = renamed_after_restart(simname, restart_step)
     ELSE UNCHANGED <<s, s_old, sTc_old, cycle, cycleerror, simname>>
  /\ evaluated' = TRUE
  /\ N' = restart_step
  /\ pc' = "loop"
  /\ UNCHANGED <<config, solver, s_mid, sTc, t, t_off, theta, nwt, is_periodic, pert,
                 last_restart, last_output, checkpoint, result_line, exit>>
  /\ UNCHANGED <<calc, nln>>

\* restart path of the multiscale solver: the 0D vectors and the heart cycle
\* counter are read back and the perturbation is induced before time stepping
multiscale_restart ==
  /\ pc = "start"
  /\ restart_step > 0
  /\ \E cs \in CheckpointStates :
       /\ s' = cs /\ s_old' = cs
       /\ sTc_old' = InitialCondition
  /\ cycle' = CheckpointCycle(restart_step, dt, T_cycl)
  /\ induce_perturbation(perturb_type, cycle', perturb_after_cylce)
  /\ evaluated' = TRUE
  /\ N' = restart_step
  /\ pc' = "loop"
  /\ UNCHANGED <<config, solver, s_mid, sTc, t, t_off, theta, nwt, cycleerror,
                 is_periodic, files, exit>>
  /\ UNCHANGED <<calc, nln>>

\* ---------------------------- head of the time loop (for N in range)
\* variant: range(restart_step+1, numstep), one step short
more_steps_short == N < numstep - 1

more_steps == N < numstep

\* variant: the time of the previous step index
current_time_stale(n) == (n - 1) * dt

current_time(n) == n * dt

\* variant: no offset is taken off the time
time_offset_zero == 0 * T_cycl

\* variant: offset of the cycle after the current one
time_offset_next == cycle * T_cycl

time_offset == (cycle - 1) * T_cycl

\* variant: the backward Euler override is never released
step_theta_sticky(n) ==
  IF initial_backwardeuler THEN 2 ELSE theta_ost

\* theta of time step n: the initial step is a backward Euler step when
\* initial_backwardeuler is set, every other step uses theta_ost
step_theta(n) ==
  IF initial_backwardeuler /\ n = restart_step + 1 THEN 2 ELSE theta_ost

loop_next ==
  /\ pc = "loop"
  /\ more_steps
  /\ N' = N + 1
  /\ t' = current_time(N + 1)
  /\ t_off' = time_offset
  /\ theta' = step_theta(N + 1)
  /\ pc' = "newton_entry"
  /\ UNCHANGED <<config, solver, vecs, nwt, evaluated, cyc, pert, files, exit>>
  /\ UNCHANGED <<calc, nln>>

loop_exhausted ==
  /\ pc = "loop"
  /\ ~more_steps
  /\ pc' = "done"
  /\ exit' = "numstep"
  /\ UNCHANGED <<config, solver, vecs, clock, nwt, evaluated, cyc, pert, files>>
  /\ UNCHANGED <<calc, nln>>

\* ------------------------------------- solver_nonlinear_ode.newton
\* variant: convergence test on the initial residual, before any solve
after_initial_residual_checked ==
  IF resnorm' < tolres THEN pc' = "midpoint" ELSE pc' = "newton"

\* control after the initial residual: the while loop is entered, the norm of
\* the initial residual is only stored and printed
after_initial_residual == pc' = "newton"

\* variant: the iteration index of the previous call is carried over
start_counters_carried == it' = it + 1 /\ ni' = 0

\* it = 0 and self.ni = 0 at entry, it += 1 once the initial residual is printed
start_counters == it' = 0 + 1 /\ ni' = 0

newton_entry ==
  /\ pc = "newton_entry"
  /\ \E r0 \in Vectors :
       /\ r' = r0
       /\ resnorm' = Norm(r0)
  /\ start_counters
  /\ nsolve' = 0
  /\ evaluated' = TRUE
  /\ after_initial_residual
  /\ UNCHANGED <<config, solver, vecs, clock, ds, incnorm, cyc, pert, files, exit>>
  /\ UNCHANGED <<calc, nln>>

\* variant: increment applied with the wrong sign
update_solution_minus(inc) == s' = s - 1 * inc

\* self.pb.s.axpy(1.0, ds)
update_solution(inc) == s' = s + 1 * inc

\* variant: convergence tested on the norms of the previous iteration
converged_before_norms == check_converged(resnorm, incnorm, tolres, tolinc)

\* check_converged on the norms stored in this iteration
converged_after_iter == check_converged(resnorm', incnorm', tolres, tolinc)

newton_iter ==
  /\ pc = "newton"
  /\ it < maxiter
  /\ \E inc \in Vectors, rnew \in Vectors :
       /\ ds' = inc
       /\ update_solution(inc)
       /\ r' = rnew
       /\ resnorm' = Norm(rnew)
       /\ incnorm' = Norm(inc)
  /\ nsolve' = nsolve + 1
  /\ it' = it + 1
  /\ IF converged_after_iter
     THEN /\ ni' = it' - 1
          /\ pc' = "midpoint"
     ELSE /\ ni' = ni
          /\ pc' = "newton"
  /\ UNCHANGED <<config, solver, s_old, s_mid, sTc, sTc_old, clock, evaluated,
                 cyc, pert, files, exit>>
  /\ UNCHANGED <<calc, nln>>

\* variant: the loop's else branch returns instead of raising
newton_raise_swallowed ==
  /\ pc = "newton"
  /\ ~(it < maxiter)
  /\ pc' = "midpoint"
  /\ exit' = exit
  /\ UNCHANGED <<config, solver, vecs, clock, nwt, evaluated, cyc, pert, files>>
  /\ UNCHANGED <<calc, nln>>

\* variant: the time-step update is done before the failure is raised
newton_raise_after_update ==
  /\ pc = "newton"
  /\ ~(it < maxiter)
  /\ s_old' = s
  /\ pc' = "error"
  /\ exit' = "newton_error"
  /\ UNCHANGED <<config, solver, s, s_mid, sTc, sTc_old, clock, nwt, evaluated,
                 cyc, pert, files>>
  /\ UNCHANGED <<calc, nln>>

newton_raise ==
  /\ pc = "newton"
  /\ ~(it < maxiter)
  /\ pc' = "error"
  /\ exit' = "newton_error"
  /\ UNCHANGED <<config, solver, vecs, clock, nwt, evaluated, cyc, pert, files>>
  /\ UNCHANGED <<calc, nln>>

\* ------------------------------- body of the time loop after the solve
midpoint_avg ==
  /\ pc = "midpoint"
  /\ s_mid' = theta_ost * s + (2 - theta_ost) * s_old
  /\ pc' = "update"
  /\ UNCHANGED <<config, solver, s, s_old, sTc, sTc_old, clock, nwt, evaluated,
                 cyc, pert, files, exit>>
  /\ UNCHANGED <<calc, nln>>

\* variant: the new and the old state vector are passed in swapped order
update_swapped ==
  /\ pc = "update"
  /\ s' = s_old
  /\ pc' = "cycle_check"
  /\ UNCHANGED <<config, solver, s_old, s_mid, sTc, sTc_old, clock, nwt,
                 evaluated, cyc, pert, files, exit>>
  /\ UNCHANGED <<calc, nln>>

\* variant: the midpoint vector is passed as the new state
update_from_mid ==
  /\ pc = "update"
  /\ s_old' = s_mid
  /\ pc' = "cycle_check"
  /\ UNCHANGED <<config, solver, s, s_mid, sTc, sTc_old, clock, nwt, evaluated,
                 cyc, pert, files, exit>>
  /\ UNCHANGED <<calc, nln>>

\* variant: the loop body goes from the update straight to the perturbation
update_skips_check ==
  /\ pc = "update"
  /\ s_old' = s
  /\ pc' = "perturb"
  /\ UNCHANGED <<config, solver, s, s_mid, sTc, sTc_old, clock, nwt, evaluated,
                 cyc, pert, files, exit>>
  /\ UNCHANGED <<calc, nln>>

update ==
  /\ pc = "update"
  /\ s_old' = s
  /\ pc' = "cycle_check"
  /\ UNCHANGED <<config, solver, s, s_mid, sTc, sTc_old, clock, nwt, evaluated,
                 cyc, pert, files, exit>>
  /\ UNCHANGED <<calc, nln>>

\* simulated time within the cycle has reached the cycle length
CycleBoundary(tt) == T_cycl > 0 /\ tt >= T_cycl

\* variant: the trigger cycle handed to cycle_check is not looked at
induction_pending_ignored == FALSE

\* the cycle that ends now is not past the trigger cycle
\* (induce_pert_after_cycl = perturb_after_cylce)
induction_pending == cycle <= perturb_after_cylce

cycle_check ==
  /\ pc = "cycle_check"
  /\ IF CycleBoundary(t - t_off)
     THEN /\ sTc' = s
          /\ cycleerror' = Norm(s - sTc_old)
          /\ is_periodic' = (/\ Norm(s - sTc_old) < eps_periodic
                             /\ ~induction_pending)
          /\ sTc_old' = s
          /\ cycle' = cycle + 1
     ELSE /\ is_periodic' = FALSE
          /\ UNCHANGED <<sTc, sTc_old, cycleerror, cycle>>
  /\ pc' = "perturb"
  /\ UNCHANGED <<config, solver, s, s_old, s_mid, clock, nwt, evaluated, pert,
                 files, exit>>
  /\ UNCHANGED <<calc, nln>>

\* variant: inverted test of perturb_type
perturb_configured_inverted == perturb_type = NoPerturb

perturb_configured == perturb_type # NoPerturb

perturb ==
  /\ pc = "perturb"
  /\ IF perturb_configured
     THEN induce_perturbation(perturb_type, cycle, perturb_after_cylce)
     ELSE UNCHANGED pert
  /\ pc' = "write"
  /\ UNCHANGED <<config, solver, vecs, clock, nwt, evaluated, cyc, files, exit>>
  /\ UNCHANGED <<calc, nln>>

\* Flow0DProblem.writerestart: the files checkpoint_<sname>_s, _sTc_old and
\* _cycledata of step N (heart cycle info only for models with T_cycl > 0)
writerestart ==
  checkpoint' = CheckpointFile(simname, N, s, sTc_old,
                               IF T_cycl > 0 THEN format_i(cycle)
                                             ELSE checkpoint.cycle,
                               IF T_cycl > 0 THEN cycleerror
                                             ELSE checkpoint.cycleerror)

\* cardvasc0D.write_output(path, t, s_mid, aux_mid, simname): the vector
\* handed to the result writer
write_output == result_line' = s_mid

\* write_output and writerestart
write_results ==
  /\ pc = "write"
  /\ IF write_results_every_0D > 0 /\ N % write_results_every_0D = 0
     THEN last_output' = N /\ write_output
     ELSE UNCHANGED <<last_output, result_line>>
  /\ IF write_restart_every > 0 /\ N % write_restart_every = 0
     THEN last_restart' = N /\ writerestart
     ELSE UNCHANGED <<last_restart, checkpoint>>
  /\ pc' = "exit_test"
  /\ UNCHANGED <<config, solver, vecs, clock, nwt, evaluated, cyc, pert, exit,
                 simname>>
  /\ UNCHANGED <<calc, nln>>

\* variant: the periodic flag is ignored at the end of the loop body
periodic_break_ignored == FALSE

periodic_break == is_periodic

\* variant: the AttributeError handler swallows the comparison as well
stop_reached_never == FALSE

\* the test of N against pb.pbs.numstep_stop at the end of the loop body
stop_reached == numstep_stop # 0 /\ N = numstep_stop

exit_test ==
  /\ pc = "exit_test"
  /\ IF periodic_break
     THEN pc' = "done" /\ exit' = "periodic"
     ELSE IF stop_reached
          THEN pc' = "done" /\ exit' = "numstep_stop"
          ELSE pc' = "loop" /\ exit' = exit
  /\ UNCHANGED <<config, solver, vecs, clock, nwt, evaluated, cyc, pert, files>>
  /\ UNCHANGED <<calc, nln>>

Next ==
  \/ Flow0DProblem_init
  \/ solver_init
  \/ solve_problem_start
  \/ multiscale_restart
  \/ loop_next
  \/ loop_exhausted
  \/ newton_entry
  \/ newton_iter
  \/ newton_raise
  \/ midpoint_avg
  \/ update
  \/ cycle_check
  \/ perturb
  \/ write_results
  \/ exit_test

Spec == Init /\ [][Next]_vars

\* ------------------------- runs started from a degenerate configuration
NextDegenerate ==
  \/ Flow0DProblem_init_degenerate
  \/ solver_init
  \/ solve_problem_start
  \/ multiscale_restart
  \/ loop_next
  \/ loop_exhausted
  \/ newton_entry
  \/ newton_iter
  \/ newton_raise
  \/ midpoint_avg
  \/ update
  \/ cycle_check
  \/ perturb
  \/ write_results
  \/ exit_test

SpecDegenerate == Init /\ [][NextDegenerate]_vars

\* ------------------- a later run restarted from the newest checkpoint
\* A run has ended; a new process is started with the same configuration,
\* restart_step = the step of the newest checkpoint on disk, and a simname
\* that is either the configured one or the one the checkpoint was written
\* under. Construction and solve_problem up to the time loop are one step:
\* readrestart either finds the files of <simname, restart_step> or fails.
\* The runs are those of Flow0DSolver; the multiscale solver keeps its own
\* checkpoint names and is left out of this specification.
rerun ==
  /\ pc \in {"done", "error"}
  /\ last_restart > 0
  /\ restart_step' = last_restart
  /\ \E sname \in {ConfiguredName, checkpoint.file[1]} :
       IF checkpoint.file = <<sname, last_restart>>
       THEN /\ readrestart(checkpoint)
            /\ simname' = renamed_after_restart(sname, last_restart)
            /\ N' = last_restart
            /\ pc' = "loop"
       ELSE /\ s' = InitialCondition /\ s_old' = InitialCondition
            /\ sTc_old' = InitialCondition
            /\ cycle' = 1 /\ cycleerror' = 0
            /\ simname' = sname
            /\ N' = 0
            /\ pc' = "io_error"
  /\ s_mid' = 0 /\ sTc' = 0
  /\ t' = 0 /\ t_off' = 0 /\ theta' = 2
  /\ it' = 0 /\ ni' = 0 /\ r' = 0 /\ ds' = 0 /\ resnorm' = 0 /\ incnorm' = 0
  /\ nsolve' = 0 /\ evaluated' = TRUE
  /\ is_periodic' = FALSE
  /\ params' = "baseline" /\ have_induced_pert' = FALSE /\ npert' = 0
  /\ exit' = "none"
  /\ UNCHANGED <<modeltype, allocated, T_cycl, dt, numstep, numstep_stop,
                 theta_ost, write_restart_every, initial_backwardeuler,
                 write_results_every_0D, parameters, eps_periodic,
                 perturb_type, perturb_after_cylce>>
  /\ UNCHANGED <<solver, last_restart, last_output, checkpoint, result_line>>
  /\ UNCHANGED <<calc, nln>>

NextRestart ==
  \/ Flow0DProblem_init
  \/ solver_init
  \/ solve_problem_start
  \/ loop_next
  \/ loop_exhausted
  \/ newton_entry
  \/ newton_iter
  \/ newton_raise
  \/ midpoint_avg
  \/ update
  \/ cycle_check
  \/ perturb
  \/ write_results
  \/ exit_test
  \/ rerun

SpecRestart == Init /\ [][NextRestart]_vars

\* ------------ solver_nonlinear.newton with divergence_continue = 'PTC'
\* One solution vector per problem; s is the state of the 0D model pb0 of a
\* problem with sub_solve. nln.caught counts the passes in which
\* catch_solver_errors reported an error.
\* vec.axpby(1.0, 0.0, vec_start)
reset_step(vec, vec_start) == 1 * vec_start + 0 * vec

\* entry: start vectors are copies of the solution vectors, it = 0, then
\* the initial residuals and it += 1
newton_general_entry ==
  /\ nln.at = "idle"
  /\ \E np \in 1..MaxProblems, sub \in {{}, {1}}, s0 \in XValues,
        mi \in 1..MaxIter :
       \E x0 \in [1..np -> XValues] :
         nln' = [at |-> "loop", nprob |-> np, sub_solve |-> sub,
                 x |-> x0, x_start |-> x0, s |-> s0, s_start |-> s0,
                 it |-> 0 + 1, maxiter |-> mi, PTC |-> FALSE,
                 counter_adapt |-> 0, caught |-> 0]
  /\ UNCHANGED <<prog, calc>>

\* the reset loop over the problems after an error: the solution vector of
\* each problem is reset in turn; for a problem with sub_solve the next
\* statement evaluates self.pb.pb0 on the list self.pb and raises
\* AttributeError, which ends the call. xn, sn: the values of the pass.
RECURSIVE reset_problems(_, _, _)
reset_problems(st, npr, xn) ==
  IF npr > st.nprob THEN [st EXCEPT !.x = xn]
  ELSE LET xr == [xn EXCEPT ![npr] = reset_step(xn[npr], st.x_start[npr])]
       IN IF npr \in st.sub_solve
          THEN [st EXCEPT !.x = xr, !.at = "attribute_error"]
          ELSE reset_problems([st EXCEPT !.counter_adapt = @ + 1], npr + 1, xr)

\* one pass of the while loop: linear solves and updates of all problems,
\* it += 1, the reset if an error was caught, the convergence test
newton_general_iter ==
  /\ nln.at = "loop"
  /\ nln.it < nln.maxiter /\ nln.counter_adapt < max_adapt
  /\ \E xn \in [1..nln.nprob -> XValues],
        sn \in (IF nln.sub_solve = {} THEN {nln.s} ELSE XValues),
        err \in SUBSET (1..nln.nprob) :
       \E converged \in SUBSET ((1..nln.nprob) \ err) :
         LET pass == [nln EXCEPT !.x = xn, !.s = sn, !.it = @ + 1,
                                 !.maxiter = ptc_maxiter]
         IN IF err # {}
            THEN nln' = reset_problems([pass EXCEPT !.PTC = TRUE, !.it = 1,
                                              !.caught = @ + 1], 1, xn)
            ELSE IF converged = 1..nln.nprob
                 THEN nln' = [pass EXCEPT !.at = "returned", !.PTC = FALSE,
                                          !.counter_adapt = 0]
                 ELSE nln' = pass
  /\ UNCHANGED <<prog, calc>>

\* the else branch of the while loop
newton_general_raise ==
  /\ nln.at = "loop"
  /\ ~(nln.it < nln.maxiter /\ nln.counter_adapt < max_adapt)
  /\ nln' = [nln EXCEPT !.at = "raised"]
  /\ UNCHANGED <<prog, calc>>

NextPTC ==
  \/ newton_general_entry
  \/ newton_general_iter
  \/ newton_general_raise

SpecPTC == Init /\ [][NextPTC]_vars

\* -------- SolidmechanicsFlow0DMultiscaleGrowthRemodelingProblem.__init__
\* A material MATn is the set of the keys of its dictionary; every material
\* of a growth and remodeling problem has a growth law.
DynamicsKeys == {"inertia", "rayleigh_damping"}

Materials == {{"neohooke_dev", "growth"} \cup d : d \in SUBSET DynamicsKeys}

ConstitutiveModels ==
  UNION {[1..n -> Materials] : n \in 1..MaxMaterials}

\* dict.pop(key) raises KeyError for a key the dictionary does not have
pop_raises(mat, key) == key \notin mat

\* dict.pop(key) of a key the dictionary has
pop(mat, key) == mat \ {key}

\* try: pop('inertia'); pop('rayleigh_damping')  except: pass
remove_dynamics(mat) ==
  IF pop_raises(mat, "inertia") THEN mat
  ELSE IF pop_raises(pop(mat, "inertia"), "rayleigh_damping")
       THEN pop(mat, "inertia")
       ELSE pop(pop(mat, "inertia"), "rayleigh_damping")

\* the deep copy of the input with the dynamics removed from each material
constitutive_models_large(models) ==
  [n \in DOMAIN models |-> remove_dynamics(models[n])]

\* the input itself: only entries inside 'growth' are rewritten
constitutive_models_small(models) == models

\* ---------------- evaluations of the parameter and time-curve functions
param_eval ==
  /\ \E b \in BOOLEAN : calc' = [fn |-> "param", arg |-> b, out |-> param(b)]
  /\ UNCHANGED <<prog, nln>>

\* the time-stepping figures main() hands to the solver
main_eval ==
  /\ calc' = [fn  |-> "main", arg |-> 0,
              out |-> [dt           |-> time_step(TIME_PARAMS.maxtime,
                                                  TIME_PARAMS.numstep),
                       T_cycl       |-> param(TRUE).T_cycl,
                       theta_ost    |-> TIME_PARAMS.theta_ost,
                       eps_periodic |-> TIME_PARAMS.eps_periodic]]
  /\ UNCHANGED <<prog, nln>>

valve_eval ==
  /\ \E b \in BOOLEAN, v \in Valves, pu \in Pressures, pd \in Pressures :
       LET R == valve_bounds(param(b), v)
       IN calc' = [fn  |-> "valve", arg |-> <<v, pu, pd>>,
                   out |-> valve_resistance(pu, pd, R[1], R[2])]
  /\ UNCHANGED <<prog, nln>>

tc1_eval ==
  /\ \E tt \in SampleTimes :
       /\ Evaluable(tc1_window, tt)
       /\ calc' = [fn |-> "tc1", arg |-> tt, out |-> tc1(tt)]
  /\ UNCHANGED <<prog, nln>>

tc2_eval ==
  /\ \E tt \in SampleTimes :
       /\ Evaluable(tc2_window, tt)
       /\ calc' = [fn |-> "tc2", arg |-> tt, out |-> tc2(tt)]
  /\ UNCHANGED <<prog, nln>>

elastance_eval ==
  /\ \E b \in BOOLEAN, ch \in Chambers, tt \in SampleTimes :
       LET c   == activation_curve(ch)
           w   == IF c = 1 THEN tc1_window ELSE tc2_window
           act == IF c = 1 THEN tc1(tt) ELSE tc2(tt)
           E   == elastance_bounds(param(b), ch)
       IN /\ Evaluable(w, tt)
          /\ calc' = [fn  |-> "elastance", arg |-> <<ch, tt, b>>,
                      out |-> [act |-> act,
                               E   |-> chamber_elastance(act, E[1], E[2])]]
  /\ UNCHANGED <<prog, nln>>

\* the material dictionaries the constructor of the multiscale growth and
\* remodeling problem keeps for the small and for the large scale
multiscale_eval ==
  /\ \E models \in ConstitutiveModels :
       calc' = [fn  |-> "multiscale", arg |-> models,
                out |-> [small |-> constitutive_models_small(models),
                         large |-> constitutive_models_large(models)]]
  /\ UNCHANGED <<prog, nln>>

NextCalc ==
  \/ multiscale_eval
  \/ param_eval
  \/ main_eval
  \/ valve_eval
  \/ tc1_eval
  \/ tc2_eval
  \/ elastance_eval

SpecCalc == Init /\ [][NextCalc]_vars

\* ===================================================================
\*                              properties
\* ===================================================================

\* control is in the loop body after a normal return of newton
ReturnedNormally ==
  pc \in {"midpoint", "update", "cycle_check", "perturb", "write", "exit_test"}

\* C1: newton returns normally only after an iteration whose own residual
\* norm and increment norm are both under tol_res and tol_inc; one small
\* norm alone never ends the step as converged.
C1_ReturnNeedsBothNorms ==
  ReturnedNormally =>
    /\ nsolve >= 1
    /\ resnorm = Norm(r) /\ incnorm = Norm(ds)
    /\ resnorm < tolres
    /\ incnorm < tolinc

C1_Witness ==
  pc = "midpoint" /\ nsolve = 2 /\ s # s_old /\ resnorm < tolres /\ incnorm < tolinc

\* C2 (as stated): when the residual at entry to newton is under tolerance
\* the call returns at once, with no linear solve and s unchanged.
C2_ImmediateReturn ==
  [][(pc = "newton" /\ it = 1 /\ resnorm < tolres)
       => (pc' = "midpoint" /\ nsolve' = 0 /\ s' = s)]_vars

\* C2 (amended): convergence is tested after every iteration that performed a
\* linear solve and not on the initial residual: the loop is entered whatever
\* the initial residual norm is, control stays in the loop only while the
\* latest iteration failed the test, and a normal return has at least one
\* linear solve behind it.
C2_CheckedAfterEachSolve ==
  /\ (pc = "newton" =>
        /\ nsolve = it - 1
        /\ (it > 1 => ~check_converged(resnorm, incnorm, tolres, tolinc)))
  /\ (pc = "midpoint" => nsolve >= 1 /\ ni = nsolve)

C2_Witness ==
  pc = "newton" /\ it = 1 /\ nsolve = 0 /\ resnorm < tolres /\ maxiter > 1

\* C3: when the iteration count reaches maxiter without a converged iteration
\* newton raises; the error leaves solve_problem and the step is not retried.
C3_ExhaustionRaises ==
  [][/\ (pc = "newton" /\ it >= maxiter)
          => (pc' = "error" /\ exit' = "newton_error" /\ N' = N /\ s' = s)
     /\ (pc' = "error")
          => /\ pc \in {"newton", "error"}
             /\ it' = maxiter
             /\ (nsolve' = 0 \/ ~check_converged(resnorm', incnorm', tolres, tolinc))
     /\ (pc = "error" => pc' = "error")]_vars

C3_Witness ==
  pc = "error" /\ exit = "newton_error" /\ nsolve = maxiter - 1 /\ nsolve >= 2

\* C4: the ODE Newton variant takes the full increment in every iteration
\* (s := s + ds), never sets the PTC flag and changes s in no other way
\* during the call.
C4_FullStepNoPTC ==
  [][/\ PTC' = FALSE
     /\ (pc = "newton" /\ it' = it + 1) => (s' = s + ds' /\ incnorm' = Norm(ds'))
     /\ (pc = "newton" /\ it' = it) => s' = s
     /\ (pc = "newton_entry") => s' = s]_vars

C4_Witness ==
  pc = "newton" /\ nsolve = 2 /\ ds # 0 /\ s # s_old /\ PTC = FALSE

\* C5: a modeltype tag outside the known set makes the construction of
\* Flow0DProblem fail before any vector exists, any residual is evaluated
\* or any step is taken.
C5_UnknownModelFailsFast ==
  /\ (pc = "config_error" =>
        /\ modeltype \notin KnownModelTypes
        /\ ~allocated /\ ~evaluated /\ N = 0 /\ it = 0 /\ exit = "none")
  /\ (pc \notin {"construct", "config_error"} => modeltype \in KnownModelTypes)

C5_Witness ==
  pc = "config_error" /\ modeltype = "3elwindkessel" /\ ~allocated

\* progress measure of a run: steps still to take, then the position in the step
StepCost == MaxIter + 12

Rank ==
  CASE pc = "construct"    -> (MaxNumStep + 2) * StepCost + 3
    [] pc = "solver_init"  -> (MaxNumStep + 2) * StepCost + 2
    [] pc = "start"        -> (MaxNumStep + 2) * StepCost + 1
    [] pc = "loop"         -> (numstep - N) * StepCost + 1
    [] pc = "newton_entry" -> (numstep - N) * StepCost + MaxIter + 10
    [] pc = "newton"       -> (numstep - N) * StepCost + 8 + (maxiter - it)
    [] pc = "midpoint"     -> (numstep - N) * StepCost + 7
    [] pc = "update"       -> (numstep - N) * StepCost + 6
    [] pc = "cycle_check"  -> (numstep - N) * StepCost + 5
    [] pc = "perturb"      -> (numstep - N) * StepCost + 4
    [] pc = "write"        -> (numstep - N) * StepCost + 3
    [] pc = "exit_test"    -> (numstep - N) * StepCost + 2
    [] OTHER               -> 0

\* C6 (as stated): the run ends only because N reached numstep, the
\* periodicity check returned true at the last step, or newton raised.
C6_ThreeExits ==
  pc \in {"done", "error"} =>
    \/ N = numstep
    \/ is_periodic
    \/ exit = "newton_error"

\* C6 (amended): solve_problem always terminates (every step of the run
\* lowers a non-negative measure) and ends in one of four ways: N reached
\* numstep, the periodicity check returned true at the last step, newton
\* raised, or N equalled pb.pbs.numstep_stop at the end of a loop body.
C6_TerminatesByFourExits ==
  [][/\ Rank' < Rank /\ Rank' >= 0
     /\ (pc' = "done") =>
          \/ exit' = "numstep" /\ N' = numstep
          \/ exit' = "periodic" /\ is_periodic'
          \/ exit' = "numstep_stop" /\ N' = numstep_stop /\ ~is_periodic'
     /\ (pc' = "error") => exit' = "newton_error"]_vars

C6_Witness ==
  pc = "done" /\ exit = "numstep_stop" /\ N = numstep_stop /\ N < numstep
    /\ ~is_periodic

C8_CycleCounterFormula ==
  (T_cycl > 0 /\ pc \in {"perturb", "write", "exit_test", "loop", "done"})
    => cycle = FloorDiv(N * dt, T_cycl) + 1

C8_Witness ==
  pc = "done" /\ exit = "periodic" /\ cycle = 3 /\ N = 4 /\ restart_step = 0

\* step N completes a cardiac cycle: time passes a multiple of T_cycl
CompletesCycle(n) ==
  T_cycl > 0 /\ FloorDiv(n * dt, T_cycl) > FloorDiv((n - 1) * dt, T_cycl)

\* C9: the cycle counter starts at 1 or at the checkpointed value, never
\* decreases, grows by exactly 1 in a step that completes a cardiac cycle
\* and stays as it is in every other step.
C9_CycleCounterMonotone ==
  [][/\ cycle' >= cycle
     /\ (pc = "start") =>
          cycle' \in {1, CheckpointCycle(restart_step, dt, T_cycl)}
     /\ (pc = "cycle_check") =>
          cycle' = cycle + (IF CompletesCycle(N) THEN 1 ELSE 0)
     /\ (pc \notin {"start", "cycle_check"}) => cycle' = cycle]_vars

C9_Witness ==
  restart_step > 0 /\ pc = "perturb" /\ cycle = 4
    /\ CheckpointCycle(restart_step, dt, T_cycl) = 3

\* the injector has been called at least once in the time loop
InjectorCalled ==
  \/ N > restart_step + 1
  \/ N = restart_step + 1 /\ pc \in {"write", "exit_test", "loop", "done"}

\* C10: with a perturbation and trigger cycle C configured the parameters
\* are perturbed exactly once, in the step whose cycle boundary takes the
\* counter past C, and no later call of induce_perturbation changes them.
C10_PerturbedExactlyOnce ==
  /\ npert <= 1
  /\ (npert = 1) = have_induced_pert
  /\ (npert = 1) = (params # "baseline")
  /\ (npert = 1) => (perturb_after_cylce > 0 /\ cycle > perturb_after_cylce)
  /\ (perturb_after_cylce > 0 /\ InjectorCalled /\ pc # "perturb")
       => ((npert = 1) = (cycle > perturb_after_cylce))

C10_Witness ==
  /\ restart_step = 0 /\ perturb_after_cylce = 2 /\ npert = 1
  /\ cycle = 4 /\ pc = "exit_test" /\ params = "bleed"

\* a Newton solve of the current step is in progress
InNewton == pc \in {"newton_entry", "newton"}

TimeStepping == pc \notin {"construct", "solver_init", "start", "config_error"}

\* C12: during time stepping s is changed only by the Newton update of the
\* step solve (s := s + ds after a linear solve); the midpoint averaging, the
\* time-step update, the periodicity check, the perturbation injection and
\* the output and restart writing leave s as it is.
C12_OnlyNewtonChangesState ==
  [][TimeStepping =>
       /\ (s' # s) =>
            /\ pc = "newton"
            /\ nsolve' = nsolve + 1
            /\ s' = s + ds'
       /\ (pc # "newton") => s' = s]_vars

C12_Witness ==
  /\ pc = "loop" /\ N = 2 /\ restart_step = 0 /\ s = 2 /\ s_old = 2
  /\ cycle = 2 /\ have_induced_pert = FALSE /\ last_restart = 2

C13_MidpointForOutputOnly ==
  [][/\ (s_mid' # s_mid) => pc = "midpoint"
     /\ (pc = "newton") => s' \in {s, s + ds'}
     /\ (pc = "update") => s_old' = s
     /\ (pc = "cycle_check" /\ cycle' # cycle) =>
          /\ sTc' = s /\ sTc_old' = s
          /\ cycleerror' = Norm(s - sTc_old)
     /\ (pc = "write" /\ last_restart' = N) =>
          /\ checkpoint'.s = s
          /\ checkpoint'.sTc_old = sTc_old
     /\ (pc = "write" /\ last_output' = N) => result_line' = s_mid
     /\ (result_line' # result_line) => pc = "write"]_vars

C13_Witness ==
  /\ pc = "loop" /\ N = 2 /\ last_restart = 2 /\ last_output = 2
  /\ s_mid # 2 * s /\ result_line = s_mid
  /\ checkpoint.s = s /\ s_old = s /\ cycle = 2 /\ sTc = s

\* C20: a failed Newton solve of step N ends the run with none of the
\* post-step actions of step N done: s_old, the midpoint and cycle snapshots,
\* the cycle counter and error, the parameter set and the result and restart
\* files are those of the end of step N-1, and nothing runs after the failure.
C20_FailedStepLeavesNoTrace ==
  [][/\ InNewton =>
          /\ pc' \in {"newton", "midpoint", "error"}
          /\ UNCHANGED <<s_old, s_mid, sTc, sTc_old, cyc, pert, files>>
     /\ (pc' = "error") =>
          /\ pc = "newton" /\ exit' = "newton_error"
          /\ last_output' < N /\ last_restart' < N
          /\ (N - 1 > restart_step) => last_output' = N - 1
          /\ (T_cycl > 0) => cycle' = FloorDiv((N - 1) * dt, T_cycl) + 1
     /\ pc # "error"]_vars

C20_Witness ==
  /\ pc = "error" /\ exit = "newton_error" /\ N = 3 /\ restart_step = 0
  /\ dt = 2 /\ T_cycl = 3 /\ cycle = 2
  /\ s # s_old /\ nsolve = 2
  /\ last_output = 2 /\ last_restart = 2 /\ checkpoint.s = s_old

\* open and closed resistance configured for valve v in the demo's record
ConfiguredOpen(v) ==
  CASE v = "vin_l"  -> param(TRUE).R_vin_l_min
    [] v = "vout_l" -> param(TRUE).R_vout_l_min
    [] v = "vin_r"  -> param(TRUE).R_vin_r_min
    [] v = "vout_r" -> param(TRUE).R_vout_r_min

ConfiguredClosed(v) ==
  CASE v = "vin_l"  -> param(TRUE).R_vin_l_max
    [] v = "vout_l" -> param(TRUE).R_vout_l_max
    [] v = "vin_r"  -> param(TRUE).R_vin_r_max
    [] v = "vout_r" -> param(TRUE).R_vout_r_max

\* C15: for any pair of pressures the valve law returns exactly the open
\* (minimum) resistance when upstream >= downstream, equality included, and
\* exactly the closed (maximum) resistance otherwise; the result is strictly
\* positive, lies in [R_min, R_max] and is the same whatever was evaluated
\* before.
C15_ValveLaw ==
  calc.fn = "valve" =>
    LET v     == calc.arg[1]
        p_up  == calc.arg[2]
        p_dn  == calc.arg[3]
        R_min == ConfiguredOpen(v)
        R_max == ConfiguredClosed(v)
    IN /\ 0 < R_min /\ R_min <= R_max
       /\ (p_up >= p_dn) => calc.out = R_min
       /\ (p_up < p_dn) => calc.out = R_max
       /\ calc.out > 0
       /\ R_min <= calc.out /\ calc.out <= R_max

C15_Witness ==
  /\ calc.fn = "valve" /\ calc.arg = <<"vout_l", 1, 1>>
  /\ calc.out = param(TRUE).R_vout_l_min

\* time tt lies in the active window w of its cycle
InWindow(w, tt) ==
  LET tmod == tt % param(TRUE).T_cycl
  IN tmod >= w.t0 /\ tmod <= w.t0 + w.act_dur

\* the activation (in quarters) is between 0 and 1 and is 0 outside w
ActivationInRange(w, tt, act4) ==
  /\ 0 <= act4 /\ act4 <= 4
  /\ ~InWindow(w, tt) => act4 = 0

\* C16: at every time tc1 and tc2 return a value in [0,1] that is zero
\* outside the active window, and the elastance of each chamber lies in
\* [E_min, E_max], equal to E_min where the activation is zero and to E_max
\* where the activation peaks.
C16_ActivationAndElastanceBounds ==
  /\ (calc.fn = "tc1") => ActivationInRange(tc1_window, calc.arg, calc.out)
  /\ (calc.fn = "tc2") => ActivationInRange(tc2_window, calc.arg, calc.out)
  /\ (calc.fn = "elastance") =>
       LET E == elastance_bounds(param(calc.arg[3]), calc.arg[1])
       IN /\ 0 <= calc.out.act /\ calc.out.act <= 4
          /\ 4 * E[1] <= calc.out.E /\ calc.out.E <= 4 * E[2]
          /\ (calc.out.act = 0) => calc.out.E = 4 * E[1]
          /\ (calc.out.act = 4) => calc.out.E = 4 * E[2]

\* the left ventricle at the peak of its activation in the second cycle
C16_Witness ==
  /\ calc.fn = "elastance" /\ calc.arg[1] = "v_l"
  /\ calc.arg[2] > param(TRUE).T_cycl
  /\ calc.out.act = 4
  /\ calc.out.E = 4 * param(calc.arg[3]).E_v_max_l

\* C17: a configuration with a zero or negative time step or with a
\* non-positive resistance or elastance bound is rejected by the constructor:
\* no problem object with such a configuration exists, so no time step is
\* taken with it.
C17_DegenerateConfigRejected ==
  allocated => ~Degenerate(dt, parameters)

\* C18: the demo steps with dt = T_cycl / 100, that is 100 time steps per
\* cardiac cycle, with theta = 0.5 (1 half) and a periodicity tolerance of
\* 2e-8 (2 in units of 1e-8).
C18_HundredStepsPerCycle ==
  calc.fn = "main" =>
    /\ calc.out.T_cycl % 100 = 0
    /\ calc.out.dt = calc.out.T_cycl \div 100
    /\ calc.out.dt * 100 = calc.out.T_cycl
    /\ calc.out.theta_ost = 1
    /\ calc.out.eps_periodic = 2

\* keys of the record the bleed factor is said to scale
ScaledKeys ==
  {"R_ar_sys", "E_at_max_l", "E_at_min_l", "E_at_max_r", "E_at_min_r",
   "E_v_max_l", "E_v_min_l", "E_v_max_r", "E_v_min_r"}

\* C19: R_ar_sys and every elastance bound of param(bleed=True) is the value
\* of param(bleed=False) times 1.49.
C19_BleedScalesByFactor ==
  (calc.fn = "param" /\ calc.arg = TRUE) =>
    \A k \in ScaledKeys : calc.out[k] * 100 = param(FALSE)[k] * 149

\* C21: within a time step the operations run in the order Newton solve,
\* midpoint averaging, time-step update, periodicity check, perturbation
\* injection, result and restart writing, periodic-exit test; the midpoint is
\* formed from the new s and the s_old of the previous step, which only the
\* update overwrites afterwards.
C21_FixedOrderOfStep ==
  [][/\ (pc = "loop") => pc' \in {"newton_entry", "done"}
     /\ (pc = "newton_entry") => pc' = "newton"
     /\ (pc = "newton") => pc' \in {"newton", "midpoint", "error"}
     /\ InNewton => s_old' = s_old
     /\ (pc = "midpoint") =>
          /\ pc' = "update"
          /\ s_mid' = theta_ost * s + (2 - theta_ost) * s_old
          /\ s_old' = s_old
     /\ (pc = "update") => (pc' = "cycle_check" /\ s_old' = s)
     /\ (pc = "cycle_check") => pc' = "perturb"
     /\ (pc = "perturb") => pc' = "write"
     /\ (pc = "write") => pc' = "exit_test"
     /\ (pc = "exit_test") => pc' \in {"loop", "done"}
     /\ (s_old' # s_old) => pc \in {"update", "construct", "start"}]_vars

C21_Witness ==
  /\ pc = "update" /\ N = 2 /\ theta_ost = 1
  /\ s # s_old /\ s_mid = s + s_old /\ last_output = 1

C24_NewtonTerminates ==
  [][/\ (pc = "newton_entry") => (it' = 1 /\ nsolve' = 0 /\ ni' = 0)
     /\ (pc = "newton" /\ pc' = "newton")
          => (it' = it + 1 /\ nsolve' = nsolve + 1 /\ it' <= maxiter)
     /\ (pc' \in {"newton", "midpoint", "error"}) => nsolve' <= maxiter - 1
     /\ (pc = "newton" /\ pc' = "midpoint")
          => (nsolve' = nsolve + 1 /\ ni' = nsolve')
     /\ (pc = "newton" /\ pc' = "error") => nsolve' = maxiter - 1]_vars

C24_Witness ==
  /\ pc = "midpoint" /\ N = 3 /\ maxiter = 3
  /\ ni = 1 /\ nsolve = 1 /\ it = 2

\* the run is inside a time step: t and t_off are those of step N
InStep ==
  pc \in {"newton_entry", "newton", "midpoint", "update", "cycle_check",
          "perturb", "write", "exit_test"}

\* C27: when the heart cycle length is a positive whole multiple of the time
\* step, the time N * dt of every step of a fresh or restarted run, less the
\* offset (cycle - 1) * T_cycl, lies in the half-open interval (0, T_cycl].
C27_CycleTimeInRange ==
  (InStep /\ T_cycl > 0 /\ T_cycl % dt = 0)
    => /\ t = N * dt
       /\ t_off = (FloorDiv(t - 1, T_cycl)) * T_cycl
       /\ 0 < t - t_off
       /\ t - t_off <= T_cycl

C27_Witness ==
  /\ pc = "newton" /\ restart_step = 2 /\ N = 4 /\ dt = 1 /\ T_cycl = 3
  /\ cycle = 2 /\ t - t_off = 1

\* C28: without a perturbation type the stored trigger cycle is -1 whatever
\* trigger cycle the input carried, the time loop's guard of
\* induce_perturbation is false in every step, and the parameter set, the
\* already-perturbed flag and the perturbation count stay as constructed
\* for the whole run.
C28_NoTypeNoPerturbation ==
  [][/\ (perturb_type' = NoPerturb /\ pc' \notin {"construct", "config_error"})
          => /\ perturb_after_cylce' = -1
             /\ params' = "baseline" /\ npert' = 0 /\ ~have_induced_pert'
     /\ (perturb_type = NoPerturb /\ pc = "perturb")
          => (~perturb_configured /\ UNCHANGED pert /\ pc' = "write")
     /\ (pc # "construct") => (perturb_type' = perturb_type
                                /\ perturb_after_cylce' = perturb_after_cylce)]_vars

C28_Witness ==
  /\ perturb_type = NoPerturb /\ perturb_after_cylce = -1
  /\ pc = "done" /\ exit = "numstep" /\ cycle = 3 /\ restart_step = 0
  /\ params = "baseline" /\ npert = 0

ReadBack == pc \in {"done", "error"} /\ pc' = "loop"

\* C22: a restart checkpoint written in the loop is written with s = s_old
\* and holds s, sTc_old and the cycle counter of that moment; a later run
\* that reads it starts with s and s_old equal to the checkpointed s, with
\* the checkpointed sTc_old, and (for a model with a heart cycle) with the
\* cycle counter the writing run had when it wrote.
C22_CheckpointRoundTrip ==
  [][/\ (checkpoint' # checkpoint)
          => /\ pc = "write" /\ s = s_old
             /\ checkpoint'.s = s /\ checkpoint'.sTc_old = sTc_old
             /\ (T_cycl > 0) =>
                   /\ checkpoint'.cycle = format_i(cycle)
                   /\ cycle = CheckpointCycle(N, dt, T_cycl)
     /\ ReadBack
          => /\ s' = checkpoint.s /\ s_old' = checkpoint.s
             /\ sTc_old' = checkpoint.sTc_old
             /\ cycle' = CheckpointCycle(last_restart, dt, T_cycl)
             /\ N' = last_restart]_vars

C22_Witness ==
  /\ pc = "newton_entry" /\ restart_step = 4 /\ N = 5
  /\ s = checkpoint.s /\ s_old = s /\ s # InitialCondition
  /\ sTc_old = checkpoint.sTc_old /\ sTc_old # s
  /\ cycle = 2 /\ T_cycl = 3 /\ dt = 1

\* a later run is started on the newest checkpoint
Rerun == pc \in {"done", "error"} /\ pc' \in {"loop", "io_error"}

\* C26 (as stated): a later run configured with the same simname and
\* restart_step = N finds the checkpoint of step N, whichever run wrote it.
C26_SameNameAlwaysFound ==
  pc = "io_error" => simname # ConfiguredName

\* C26: a run writes its checkpoints under its current simname, which is
\* the configured name for a fresh run and the configured name followed by
\* '_r' and the restart step for a restarted one. A later run with
\* restart_step = N reads the checkpoint back exactly when its simname is
\* the name the checkpoint was written under: the configured name finds
\* the checkpoints of a fresh run and misses those of a restarted run.
C26_ReadBackUnderWrittenName ==
  [][/\ (checkpoint' # checkpoint)
          => /\ checkpoint'.file = <<simname, N>>
             /\ simname = IF restart_step > 0
                           THEN restart_name(ConfiguredName, restart_step)
                           ELSE ConfiguredName
     /\ (Rerun /\ pc' = "loop")
          => simname' = restart_name(checkpoint.file[1], restart_step')
     /\ (Rerun /\ pc' = "io_error")
          => /\ simname' = ConfiguredName
             /\ checkpoint.file[1] # ConfiguredName
             /\ restart_step > 0
     /\ (Rerun /\ simname' = restart_name(ConfiguredName, restart_step'))
          => (pc' = "loop" /\ checkpoint.file = <<ConfiguredName, restart_step'>>)
     /\ Rerun => restart_step' = checkpoint.file[2]]_vars

C26_Witness ==
  /\ pc = "loop" /\ restart_step = 4 /\ N = 4
  /\ simname = <<2, 4>> /\ checkpoint.file = <<(<<2>>), 4>>
  /\ s = checkpoint.s

\* C25: after construction of the multiscale growth and remodeling problem
\* no large-scale material has an 'inertia' or a 'rayleigh_damping' entry,
\* whichever of the two the input carried, and every small-scale material
\* has the entries of the input.
C25_LargeScaleWithoutDynamics ==
  (calc.fn = "multiscale") =>
    \A n \in DOMAIN calc.arg :
      /\ calc.out.large[n] \cap DynamicsKeys = {}
      /\ calc.out.large[n] \ DynamicsKeys = calc.arg[n] \ DynamicsKeys
      /\ calc.out.small[n] = calc.arg[n]

\* C30: in solver_nonlinear.newton with divergence_continue = 'PTC', a pass
\* in which a solver error is caught leaves every solution vector, and the
\* 0D state s of a problem with an active sub-solve, at its value at entry,
\* continues at iteration index 1 with PTC enabled, and the call raises
\* RuntimeError after at most 10 such passes without convergence.
C30_ErrorResetsToEntryState ==
  [][/\ (nln'.caught = nln.caught + 1)
          => /\ nln'.x = nln.x_start
             /\ (nln.sub_solve # {}) => nln'.s = nln.s_start
             /\ nln'.it = 1 /\ nln'.PTC
             /\ nln'.at = "loop"
     /\ nln'.caught <= max_adapt
     /\ (nln.at = "loop" /\ nln.counter_adapt >= max_adapt)
          => nln'.at = "raised"]_vars

====
